---- MODULE Spec2Model ----
(***************************************************************************)
(* Model of zhinst/toolkit/control/connection.py: the data server          *)
(* connection ZIConnection, its AWGModule, and the per-device wrapper      *)
(* DeviceConnection with its node-path translation.                        *)
(*                                                                         *)
(* Python strings that the code inspects (commands, serials, node paths)   *)
(* are sequences of one-character strings.  An optional value is a         *)
(* sequence of length 0 (None / keyword absent) or 1 (the value).          *)
(* The vendor library zhinst.ziPython is a black box: every call into it   *)
(* is appended to `calls`, and what it returns is chosen by the            *)
(* environment.                                                            *)
(***************************************************************************)
EXTENDS Integers, Sequences, FiniteSets, TLC

\* ------------------------------------------------------------------ bounds
MaxConns == 2      \* ZIConnection objects that are ever constructed
MaxIndex == 1      \* AWG indices are 0..MaxIndex
MaxLen == 5        \* longest command string given to _command_to_node
MaxList == 2       \* longest settings list given to DeviceConnection.set

VARIABLES
    daq,          \* ZIConnection._daq: None or the vendor session
    awg,          \* ZIConnection._awg: None or the AWGModule (_device, _index)
    daq_module,   \* ZIConnection._daq_module: "unset" until connect() sets it
    nconn,        \* number of ZIConnection objects constructed so far
    connection,   \* DeviceConnection._connection: None or a ZIConnection
    op,           \* the operation that ran last and its arguments
    res,          \* how it ended: "ok" or the exception it raised
    ret,          \* the value it returned
    calls,        \* the vendor calls it made, in order
    command,      \* the argument of _command_to_node
    node,         \* the result of _command_to_node
    arguments     \* the argument tuple (*args) of DeviceConnection.set

vars == <<daq, awg, daq_module, nconn, connection,
          op, res, ret, calls, command, node, arguments>>

\* ------------------------------------------------------------ value model
None == <<>>
Some(x) == <<x>>
IsNone(o) == Len(o) = 0
Val(o) == o[1]

Conns == 1..MaxConns
Devices == {1, 2}
Values == {0, 1}

\* the instrument behind each DeviceConnection (self._device)
serial(d) == IF d = 1 THEN <<"d">> ELSE <<"d", "z">>
interface(d) == IF d = 1 THEN "1gbe" ELSE "usb"

ZHTK == "ZHTKConnectionException"

Call(fn, args, kwargs, r) == [fn |-> fn, args |-> args, kwargs |-> kwargs, ret |-> r]

NoOp == [name |-> "none", conn |-> 0, dev |-> 0, args |-> <<>>]
Op(name, c, d, args) == [name |-> name, conn |-> c, dev |-> d, args |-> args]

\* ------------------------------------------------- ZIConnection.AWGModule
\* A module value m carries the tracked fields and the vendor calls made.
AwgIndices == 0..MaxIndex
AwgDevices == {<<>>} \cup {serial(d) : d \in Devices}

\* AWGModule.__init__: the fields are what the fresh vendor module reports
AWGModule_init == [device |-> <<>>, index |-> 0]

AWGModule_init_calls ==
    << Call("awgModule", <<>>, {}, 0),
       Call("awgModule.execute", <<>>, {}, 0),
       Call("awgModule.getString", <<"/device">>, {}, <<>>),
       Call("awgModule.getInt", <<"/index">>, {}, 0) >>

\* faulty variant: the vendor index is set but the tracked index is not updated
update_index_untracked(m, index) ==
    IF index # m.st.index
    THEN [st |-> m.st,
          calls |-> Append(m.calls, Call("awgModule.set", <<"/index", index>>, {}, 0))]
    ELSE m

_update_index(m, index) ==
    IF index # m.st.index
    THEN [st |-> [m.st EXCEPT !.index = index],
          calls |-> Append(m.calls, Call("awgModule.set", <<"/index", index>>, {}, 0))]
    ELSE m

_update_device(m, device) ==
    IF device # m.st.device
    THEN LET m0 == _update_index(m, 0)
         IN [st |-> [m0.st EXCEPT !.device = device],
             calls |-> Append(m0.calls, Call("awgModule.set", <<"/device", device>>, {}, 0))]
    ELSE m

\* kwargs: [device |-> optional, index |-> optional]; other keys are ignored
update(m, kwargs) ==
    LET m1 == IF ~IsNone(kwargs.device) THEN _update_device(m, Val(kwargs.device)) ELSE m
    IN IF ~IsNone(kwargs.index) THEN _update_index(m1, Val(kwargs.index)) ELSE m1

\* ----------------------------------------------------------- ZIConnection
established(c) == ~IsNone(daq[c])

awg_module(c) == awg[c]

ConnectOutcomes == {"ok", "RuntimeError", "None"}

\* faulty variant: connect() keeps the session but never creates the AWG module
connect_without_awg(c, outcome) ==
    IF outcome = "RuntimeError"
       THEN /\ res' = ZHTK
            /\ ret' = None
            /\ calls' = << Call("ziDAQServer", <<"details">>, {}, "RuntimeError") >>
            /\ UNCHANGED <<daq, awg, daq_module>>
       ELSE IF outcome = "ok"
       THEN /\ daq' = [daq EXCEPT ![c] = Some("ziDAQServer")]
            /\ daq_module' = [daq_module EXCEPT ![c] = "set"]
            /\ res' = "ok"
            /\ ret' = None
            /\ calls' = << Call("ziDAQServer", <<"details">>, {}, "session") >>
            /\ UNCHANGED awg
       ELSE /\ daq' = [daq EXCEPT ![c] = None]
            /\ res' = ZHTK
            /\ ret' = None
            /\ calls' = << Call("ziDAQServer", <<"details">>, {}, "None") >>
            /\ UNCHANGED <<awg, daq_module>>

\* ZIConnection.connect(); `outcome` is what zi.ziDAQServer(...) does
connect(c, outcome) ==
    IF outcome = "RuntimeError"
       THEN /\ res' = ZHTK
            /\ ret' = None
            /\ calls' = << Call("ziDAQServer", <<"details">>, {}, "RuntimeError") >>
            /\ UNCHANGED <<daq, awg, daq_module>>
       ELSE IF outcome = "ok"
       THEN /\ daq' = [daq EXCEPT ![c] = Some("ziDAQServer")]
            /\ awg' = [awg EXCEPT ![c] = Some(AWGModule_init)]
            /\ daq_module' = [daq_module EXCEPT ![c] = "set"]
            /\ res' = "ok"
            /\ ret' = None
            /\ calls' = << Call("ziDAQServer", <<"details">>, {}, "session") >>
                          \o AWGModule_init_calls
       ELSE /\ daq' = [daq EXCEPT ![c] = None]
            /\ res' = ZHTK
            /\ ret' = None
            /\ calls' = << Call("ziDAQServer", <<"details">>, {}, "None") >>
            /\ UNCHANGED <<awg, daq_module>>

Connect(c, outcome) ==
    /\ c <= nconn
    /\ op' = Op("connect", c, 0, <<>>)
    /\ connect(c, outcome)
    /\ UNCHANGED <<nconn, connection, command, node, arguments>>

\* the condition under which connect_device refuses its arguments (line 95)
connect_device_refuses(s, i) == ~(\E k \in 1..2 : IsNone(<<s, i>>[k]))

\* ZIConnection.connect_device(serial=s, interface=i); s, i optional.
\* `accepts`: whether the vendor's connectDevice returns or raises.
connect_device(c, s, i, accepts) ==
    IF IsNone(daq[c])
    THEN /\ res' = ZHTK
         /\ calls' = <<>>
         /\ UNCHANGED awg
    ELSE IF connect_device_refuses(s, i)
    THEN /\ res' = ZHTK
         /\ calls' = <<>>
         /\ UNCHANGED awg
    ELSE LET cd == Call("connectDevice", <<s, i>>, {}, 0)
             m  == update([st |-> Val(awg[c]), calls |-> <<cd>>],
                          [device |-> s, index |-> Some(0)])
         IN IF ~accepts
            THEN /\ res' = "RuntimeError"
                 /\ calls' = <<cd>>
                 /\ UNCHANGED awg
            ELSE IF IsNone(s) \/ IsNone(i)      \* None.upper() in the print
            THEN /\ res' = "AttributeError"
                 /\ calls' = <<cd>>
                 /\ UNCHANGED awg
            ELSE /\ res' = "ok"
                 /\ calls' = m.calls
                 /\ awg' = [awg EXCEPT ![c] = Some(m.st)]

OptSerials == {None} \cup {Some(serial(d)) : d \in Devices}
OptInterfaces == {None, Some("1gbe"), Some("usb")}

ConnectDevice(c, s, i, accepts) ==
    /\ c <= nconn
    /\ op' = Op("connect_device", c, 0, <<s, i>>)
    /\ connect_device(c, s, i, accepts)
    /\ ret' = None
    /\ UNCHANGED <<daq, daq_module, nconn, connection, command, node, arguments>>

\* the four pass-throughs: set, get, get_sample, list_nodes
PassArgs == { [args |-> <<"n1">>, kwargs |-> {}],
              [args |-> <<"n1", "n2">>, kwargs |-> {}],
              [args |-> <<"n1">>, kwargs |-> {"flat"}] }

\* faulty variant: the established check is missing
forward_unguarded(c, vendor, a, r) ==
    /\ res' = "ok"
    /\ ret' = Some(r)
    /\ calls' = << Call(vendor, a.args, a.kwargs, r) >>

\* the guard and the forwarding shared by the four methods
forward(c, vendor, a, r) ==
    IF ~established(c)
    THEN /\ res' = ZHTK
         /\ ret' = None
         /\ calls' = <<>>
    ELSE /\ res' = "ok"
         /\ ret' = Some(r)
         /\ calls' = << Call(vendor, a.args, a.kwargs, r) >>

passthrough(c, name, vendor, a, r) ==
    /\ c <= nconn
    /\ op' = Op(name, c, 0, a)
    /\ forward(c, vendor, a, r)
    /\ UNCHANGED <<daq, awg, daq_module, nconn, connection, command, node, arguments>>

Set(c, a, r) == a.kwargs = {} /\ passthrough(c, "set", "set", a, r)

Get(c, a, r) == a \in PassArgs /\ passthrough(c, "get", "get", a, r)

GetSample(c, a, r) == a \in PassArgs /\ passthrough(c, "get_sample", "getSample", a, r)

ListNodes(c, a, r) == a \in PassArgs /\ passthrough(c, "list_nodes", "listNodesJSON", a, r)

\* ------------------------------------------- AWGModule methods as actions
AwgKwargs == [device : {None} \cup {Some(x) : x \in AwgDevices},
              index : {None} \cup {Some(k) : k \in AwgIndices}]
AwgNodes == {"/compiler/status", "/elf/file"}

\* AWGModule.update(**kwargs) on the module of connection c
AwgUpdate(c, kwargs) ==
    /\ ~IsNone(awg[c])
    /\ op' = Op("awg.update", c, 0, <<kwargs>>)
    /\ LET m == update([st |-> Val(awg[c]), calls |-> <<>>], kwargs)
       IN /\ awg' = [awg EXCEPT ![c] = Some(m.st)]
          /\ calls' = m.calls
    /\ res' = "ok"
    /\ ret' = None
    /\ UNCHANGED <<daq, daq_module, nconn, connection, command, node, arguments>>

\* update(**kwargs) followed by the vendor call
awg_call(c, name, vendor, vkwargs, args, kwargs, r) ==
    /\ ~IsNone(awg[c])
    /\ op' = Op(name, c, 0, <<args, kwargs>>)
    /\ LET m == update([st |-> Val(awg[c]), calls |-> <<>>], kwargs)
       IN /\ awg' = [awg EXCEPT ![c] = Some(m.st)]
          /\ calls' = Append(m.calls, Call(vendor, args, vkwargs, r))
    /\ res' = "ok"
    /\ ret' = IF name = "awg.set" THEN None ELSE Some(r)
    /\ UNCHANGED <<daq, daq_module, nconn, connection, command, node, arguments>>

AwgSet(c, n, v, kwargs) ==
    /\ c \in Conns
    /\ awg_call(c, "awg.set", "awgModule.set", {}, <<n, v>>, kwargs, 0)

AwgGet(c, n, kwargs, r) ==
    /\ c \in Conns
    /\ awg_call(c, "awg.get", "awgModule.get", {"flat"}, <<n>>, kwargs, r)

AwgGetInt(c, n, kwargs, r) ==
    /\ c \in Conns
    /\ awg_call(c, "awg.get_int", "awgModule.getInt", {}, <<n>>, kwargs, r)

AwgGetDouble(c, n, kwargs, r) ==
    /\ c \in Conns
    /\ awg_call(c, "awg.get_double", "awgModule.getDouble", {}, <<n>>, kwargs, r)

AwgGetString(c, n, kwargs, r) ==
    /\ c \in Conns
    /\ awg_call(c, "awg.get_string", "awgModule.getString", {}, <<n>>, kwargs, r)

\* ------------------------------------------------------- DeviceConnection
\* faulty variant: setup connects whether or not the connection is established
setup_connects_always(c) == TRUE

\* whether setup has to call connect() on the connection it now holds
setup_connects(c) == ~established(c)

\* DeviceConnection.setup(connection=given); given is optional
Setup(d, given, outcome) ==
    /\ IsNone(given) => nconn < MaxConns
    /\ ~IsNone(given) => Val(given) <= nconn
    /\ LET c == IF IsNone(given) THEN nconn + 1 ELSE Val(given)
       IN /\ op' = Op("setup", c, d, <<given>>)
          /\ nconn' = IF IsNone(given) THEN nconn + 1 ELSE nconn
          /\ connection' = [connection EXCEPT ![d] = Some(c)]
          /\ IF setup_connects(c)
             THEN connect(c, outcome)
             ELSE /\ res' = "ok"
                  /\ ret' = None
                  /\ calls' = <<>>
                  /\ UNCHANGED <<daq, awg, daq_module>>
    /\ UNCHANGED <<command, node, arguments>>

\* DeviceConnection.connect_device()
DevConnectDevice(d, accepts) ==
    /\ op' = Op("DeviceConnection.connect_device", 0, d, <<>>)
    /\ IF IsNone(connection[d])
       THEN /\ res' = "AttributeError"
            /\ calls' = <<>>
            /\ UNCHANGED awg
       ELSE connect_device(Val(connection[d]), Some(serial(d)),
                           Some(interface(d)), accepts)
    /\ ret' = None
    /\ UNCHANGED <<daq, daq_module, nconn, connection, command, node, arguments>>

\* --------------------------------------------------- node-path translation
Alphabet == {"/", "z", "i", "Z", "d"}

\* str.lower() on one character
lower_char(ch) == IF ch = "Z" THEN "z" ELSE ch

lower(s) == [k \in 1..Len(s) |-> lower_char(s[k])]

\* Python's `sub in s` for strings
contains(sub, s) ==
    \E k \in 1..(Len(s) - Len(sub) + 1) : SubSeq(s, k, k + Len(sub) - 1) = sub

\* DeviceConnection._command_to_node for a non-empty command
_command_to_node(ser, cmd) ==
    LET c1 == lower(cmd)
        c2 == IF c1[1] # "/" THEN <<"/">> \o c1 ELSE c1
    IN IF ~contains(<<"/", "z", "i", "/">>, c2)
       THEN IF ~contains(ser, c2) THEN <<"/">> \o ser \o c2 ELSE c2
       ELSE c2

CommandToNode(d) ==
    /\ op' = Op("_command_to_node", 0, d, <<command>>)
    /\ IF command = <<>>                       \* command[0] on ""
       THEN /\ res' = "IndexError"
            /\ node' = None
       ELSE /\ res' = "ok"
            /\ node' = Some(_command_to_node(serial(d), command))
    /\ ret' = None
    /\ calls' = <<>>
    /\ UNCHANGED <<daq, awg, daq_module, nconn, connection, command, arguments>>

\* ------------------------------------------------- DeviceConnection.set
\* An element of a settings list: `sized` says whether len() applies to it,
\* `items` are its members.
Pair(c, v) == [sized |-> TRUE, items |-> <<c, v>>]
Commands == { <<>>, <<"Z">>, <<"/", "z", "i", "/", "d">> }
Pairs == { Pair(<<"Z">>, 0), Pair(<<"/", "z", "i", "/", "d">>, 1), Pair(<<>>, 0) }
NonPairs == { [sized |-> FALSE, items |-> <<>>],
              [sized |-> TRUE, items |-> << <<"Z">>, 0, 1 >>] }
Elements == Pairs \cup NonPairs
Lists == UNION {[1..n -> Elements] : n \in 0..MaxList}

RECURSIVE commands_to_node_from(_, _, _, _)
commands_to_node_from(ser, settings, k, new_settings) ==
    IF k > Len(settings)
    THEN [err |-> "ok", out |-> new_settings]
    ELSE LET args == settings[k]
         IN IF ~args.sized                       \* TypeError from len()
            THEN [err |-> ZHTK, out |-> <<>>]
            ELSE IF Len(args.items) # 2
            THEN [err |-> ZHTK, out |-> <<>>]
            ELSE IF args.items[1] = <<>>         \* command[0] on ""
            THEN [err |-> "IndexError", out |-> <<>>]
            ELSE commands_to_node_from(ser, settings, k + 1,
                     Append(new_settings,
                            <<_command_to_node(ser, args.items[1]), args.items[2]>>))

\* faulty variant: elements that are not pairs are skipped instead of refused
RECURSIVE commands_to_node_skipping(_, _)
commands_to_node_skipping(ser, settings) ==
    IF settings = <<>>
    THEN [err |-> "ok", out |-> <<>>]
    ELSE LET args == Head(settings)
             rest == commands_to_node_skipping(ser, Tail(settings))
         IN IF ~args.sized \/ Len(args.items) # 2
            THEN rest
            ELSE IF args.items[1] = <<>>
            THEN [err |-> "IndexError", out |-> <<>>]
            ELSE IF rest.err # "ok"
            THEN rest
            ELSE [err |-> "ok",
                  out |-> <<<<_command_to_node(ser, args.items[1]), args.items[2]>>>>
                          \o rest.out]

_commands_to_node(ser, settings) == commands_to_node_from(ser, settings, 1, <<>>)

\* the argument tuples DeviceConnection.set is called with
SetArgs == {<<>>} \cup {<<c, v>> : c \in Commands, v \in Values}
                 \cup {<<l>> : l \in Lists}
                 \cup {<< <<"Z">>, 0, 1 >>}

DevSet(d, r) ==
    /\ op' = Op("DeviceConnection.set", 0, d, arguments)
    /\ IF Len(arguments) \notin {1, 2}
       THEN /\ res' = ZHTK
            /\ ret' = None
            /\ calls' = <<>>
       ELSE LET settings == IF Len(arguments) = 2
                                THEN <<Pair(arguments[1], arguments[2])>>
                                ELSE arguments[1]
                p == _commands_to_node(serial(d), settings)
            IN IF p.err # "ok"
               THEN /\ res' = p.err
                    /\ ret' = None
                    /\ calls' = <<>>
               ELSE IF IsNone(connection[d])
               THEN /\ res' = "AttributeError"
                    /\ ret' = None
                    /\ calls' = <<>>
               ELSE forward(Val(connection[d]), "set",
                            [args |-> <<p.out>>, kwargs |-> {}], r)
    /\ UNCHANGED <<daq, awg, daq_module, nconn, connection, command, node, arguments>>

\* ---------------------------------------------------------- specification
\* the objects as their constructors leave them, before any call
InitObjects ==
    /\ daq = [c \in Conns |-> None]
    /\ awg = [c \in Conns |-> None]
    /\ daq_module = [c \in Conns |-> "unset"]
    /\ nconn = 1
    /\ connection = [d \in Devices |-> None]
    /\ op = NoOp
    /\ res = "ok"
    /\ ret = None
    /\ calls = <<>>
    /\ node = None

Init ==
    /\ InitObjects
    /\ command = <<>>
    /\ arguments = <<>>

Next ==
    \/ \E c \in Conns, o \in ConnectOutcomes : Connect(c, o)
    \/ \E c \in Conns, s \in OptSerials, i \in OptInterfaces, b \in BOOLEAN :
          ConnectDevice(c, s, i, b)
    \/ \E c \in Conns, a \in PassArgs, r \in Values : Set(c, a, r)
    \/ \E c \in Conns, a \in PassArgs, r \in Values : Get(c, a, r)
    \/ \E c \in Conns, a \in PassArgs, r \in Values : GetSample(c, a, r)
    \/ \E c \in Conns, a \in PassArgs, r \in Values : ListNodes(c, a, r)
    \/ \E d \in Devices, g \in {None} \cup {Some(c) : c \in Conns},
          o \in ConnectOutcomes : Setup(d, g, o)
    \/ \E d \in Devices, b \in BOOLEAN : DevConnectDevice(d, b)

Spec == Init /\ [][Next]_vars

\* DeviceConnection.set, on every argument tuple of SetArgs and on
\* connections brought up by setup
NextSet ==
    \/ \E d \in Devices, g \in {None} \cup {Some(c) : c \in Conns},
          o \in ConnectOutcomes : Setup(d, g, o)
    \/ \E d \in Devices, r \in Values : DevSet(d, r)

InitSet ==
    /\ InitObjects
    /\ command = <<>>
    /\ arguments \in SetArgs

SpecSet == InitSet /\ [][NextSet]_vars

\* The AWG module of connection 1, from the state connect() leaves
InitAwg ==
    /\ daq = [c \in Conns |-> IF c = 1 THEN Some("ziDAQServer") ELSE None]
    /\ awg = [c \in Conns |-> IF c = 1 THEN Some(AWGModule_init) ELSE None]
    /\ daq_module = [c \in Conns |-> IF c = 1 THEN "set" ELSE "unset"]
    /\ nconn = 1
    /\ connection = [d \in Devices |-> None]
    /\ op = Op("connect", 1, 0, <<>>)
    /\ res = "ok"
    /\ ret = None
    /\ calls = << Call("ziDAQServer", <<"details">>, {}, "session") >>
                 \o AWGModule_init_calls
    /\ command = <<>>
    /\ node = None
    /\ arguments = <<>>

NextAwg ==
    \/ \E c \in Conns, k \in AwgKwargs : AwgUpdate(c, k)
    \/ \E c \in Conns, n \in AwgNodes, v \in Values, k \in AwgKwargs :
          AwgSet(c, n, v, k)
    \/ \E c \in Conns, n \in AwgNodes, k \in AwgKwargs, r \in Values :
          AwgGet(c, n, k, r)
    \/ \E c \in Conns, n \in AwgNodes, k \in AwgKwargs, r \in Values :
          AwgGetInt(c, n, k, r)
    \/ \E c \in Conns, n \in AwgNodes, k \in AwgKwargs, r \in Values :
          AwgGetDouble(c, n, k, r)
    \/ \E c \in Conns, n \in AwgNodes, k \in AwgKwargs, r \in Values :
          AwgGetString(c, n, k, r)

SpecAwg == InitAwg /\ [][NextAwg]_vars

\* _command_to_node on every command of up to MaxLen characters
CommandStrings == UNION {[1..n -> Alphabet] : n \in 0..MaxLen}

InitNode ==
    /\ InitObjects
    /\ command \in CommandStrings
    /\ arguments = <<>>

NextNode == \E d \in Devices : CommandToNode(d)

SpecNode == InitNode /\ [][NextNode]_vars

\* ================================================================ claims
PassThroughs == {"set", "get", "get_sample", "list_nodes"}

VendorName(name) ==
    CASE name = "set" -> "set"
      [] name = "get" -> "get"
      [] name = "get_sample" -> "getSample"
      [] name = "list_nodes" -> "listNodesJSON"

\* C1: a step of set, get, get_sample or list_nodes on a connection that is
\* not established raises ZHTKConnectionException, makes no vendor call and
\* leaves the connection state unchanged (established stays False); on an
\* established connection it makes exactly the corresponding vendor call
\* with the arguments it was given and returns what that call returned.
C1_PassThrough ==
    [][op'.name \in PassThroughs =>
          LET c == op'.conn
          IN IF ~established(c)
             THEN /\ res' = ZHTK
                  /\ calls' = <<>>
                  /\ IsNone(daq'[c])
                  /\ UNCHANGED <<daq, awg, daq_module, nconn, connection>>
             ELSE /\ res' = "ok"
                  /\ Len(calls') = 1
                  /\ calls'[1].fn = VendorName(op'.name)
                  /\ calls'[1].args = op'.args.args
                  /\ calls'[1].kwargs = op'.args.kwargs
                  /\ ret' = Some(calls'[1].ret)
                  /\ UNCHANGED <<daq, awg, daq_module, nconn, connection>>]_vars

\* C1 witness: get_sample has just raised on a connection that is not
\* established, while another pass-through target is established.
C1_Witness ==
    /\ op.name = "get_sample"
    /\ ~established(op.conn)
    /\ res = ZHTK
    /\ \E c \in Conns : established(c)

\* C2: on an established connection, connect_device with serial and
\* interface both given does not raise ZHTKConnectionException, calls the
\* vendor's connectDevice(serial, interface), and when it returns the AWG
\* module addresses (serial, 0); ZHTKConnectionException is raised only if
\* the connection is not established or serial or interface is missing.
C2_ConnectDevice ==
    op.name = "connect_device" =>
        LET c == op.conn
            s == op.args[1]
            i == op.args[2]
        IN /\ (established(c) /\ ~IsNone(s) /\ ~IsNone(i)) =>
                 /\ res # ZHTK
                 /\ Len(calls) >= 1
                 /\ calls[1].fn = "connectDevice"
                 /\ calls[1].args = <<s, i>>
                 /\ res = "ok" => Val(awg[c]) = [device |-> Val(s), index |-> 0]
           /\ res = ZHTK => (~established(c) \/ IsNone(s) \/ IsNone(i))

C4_Setup ==
    /\ [](op.name = "setup" =>
            /\ connection[op.dev] = Some(op.conn)
            /\ ~IsNone(op.args[1]) => op.conn = Val(op.args[1])
            /\ res = "ok" => established(op.conn))
    /\ [][op'.name = "setup" =>
            /\ IsNone(op'.args[1]) => (nconn' = nconn + 1 /\ op'.conn = nconn')
            /\ ~IsNone(op'.args[1]) => nconn' = nconn
            /\ established(op'.conn) =>
                  (calls' = <<>> /\ res' = "ok" /\ UNCHANGED <<daq, awg, daq_module>>)
            /\ ~established(op'.conn) =>
                  (calls' # <<>> /\ calls'[1].fn = "ziDAQServer")]_vars

\* C4 witness: a second DeviceConnection has just been set up on a shared
\* connection that was already established, without a vendor call.
C4_Witness ==
    /\ op.name = "setup"
    /\ res = "ok"
    /\ calls = <<>>
    /\ \E d \in Devices : d # op.dev /\ connection[d] = Some(op.conn)
    /\ connection[op.dev] = Some(op.conn)

\* ---- DeviceConnection.set
\* the settings list that the argument tuple `a` stands for
SettingsOf(a) == IF Len(a) = 2 THEN <<Pair(a[1], a[2])>> ELSE a[1]

IsPair(e) == e.sized /\ Len(e.items) = 2

\* the one vendor call the claim expects for a list of pairs: every pair in
\* order, the command as a node path, the value as given
SentAsOneSet(d, settings) ==
    /\ Len(calls) = 1
    /\ calls[1].fn = "set"
    /\ calls[1].kwargs = {}
    /\ Len(calls[1].args) = 1
    /\ Len(calls[1].args[1]) = Len(settings)
    /\ \A k \in 1..Len(settings) :
          /\ calls[1].args[1][k][1] = _command_to_node(serial(d), settings[k].items[1])
          /\ calls[1].args[1][k][2] = settings[k].items[2]

\* whether DeviceConnection d holds an established connection
HoldsEstablished(d) == ~IsNone(connection[d]) /\ established(Val(connection[d]))

CommandsNonEmpty(settings) ==
    \A k \in 1..Len(settings) : IsPair(settings[k]) => settings[k].items[1] # <<>>

StartsWith(prefix, s) ==
    Len(s) >= Len(prefix) /\ SubSeq(s, 1, Len(prefix)) = prefix

\* the command in lower case with a leading '/'
Normalised(cmd) ==
    LET c1 == lower(cmd) IN IF c1[1] # "/" THEN <<"/">> \o c1 ELSE c1

\* C6: for every non-empty command the result is lower-cased and starts
\* with '/'; if the command does not start with '/zi/' the device serial is
\* in front of it, and a command that starts with '/zi/' is returned
\* without the serial.
C6_CommandToNode ==
    (op.name = "_command_to_node" /\ command # <<>>) =>
        /\ res = "ok"
        /\ ~IsNone(node)
        /\ LET n == Val(node)
               zi == StartsWith(<<"/", "z", "i", "/">>, Normalised(command))
           IN /\ n = lower(n)
              /\ n[1] = "/"
              /\ ~zi => StartsWith(<<"/">> \o serial(op.dev), n)
              /\ zi => n = Normalised(command)

\* ---- ZIConnection.AWGModule
AwgPassThroughs == {"awg.set", "awg.get", "awg.get_int", "awg.get_double",
                    "awg.get_string"}

AwgVendorName(name) ==
    CASE name = "awg.set" -> "awgModule.set"
      [] name = "awg.get" -> "awgModule.get"
      [] name = "awg.get_int" -> "awgModule.getInt"
      [] name = "awg.get_double" -> "awgModule.getDouble"
      [] name = "awg.get_string" -> "awgModule.getString"

\* the kwargs of an AWG operation
KwargsOf(o) == IF o.name = "awg.update" THEN o.args[1] ELSE o.args[2]

\* whether call k of cs re-addresses the module to what `post` tracks
Readdresses(cs, k, post) ==
    /\ cs[k].fn = "awgModule.set"
    /\ cs[k].args[1] \in {"/device", "/index"}
    /\ cs[k].args[1] = "/device" => cs[k].args[2] = post.device
    /\ (cs[k].args[1] = "/index" /\ \A j \in (k+1)..Len(cs) : cs[j].args[1] # "/index")
          => cs[k].args[2] = post.index

\* C7: after update, or a pass-through, called with device=d and/or
\* index=i the module tracks device d and index i (with both given, exactly
\* (d, i)); in a pass-through every re-addressing vendor set precedes the
\* one vendor call, which is made last with the arguments given; and when
\* the keywords are absent or equal to the current device and index, no
\* re-addressing vendor set is issued and the module is unchanged.
C7_AwgUpdate ==
    [][op'.name \in AwgPassThroughs \cup {"awg.update"} =>
          LET c == op'.conn
              kw == KwargsOf(op')
              pre == Val(awg[c])
              post == Val(awg'[c])
              n == Len(calls')
              nset == IF op'.name = "awg.update" THEN n ELSE n - 1
              same == /\ IsNone(kw.device) \/ Val(kw.device) = pre.device
                      /\ IsNone(kw.index) \/ Val(kw.index) = pre.index
          IN /\ ~IsNone(kw.device) => post.device = Val(kw.device)
             /\ ~IsNone(kw.index) => post.index = Val(kw.index)
             /\ IsNone(kw.device) => post.device = pre.device
             /\ op'.name \in AwgPassThroughs =>
                   /\ n >= 1
                   /\ calls'[n].fn = AwgVendorName(op'.name)
                   /\ calls'[n].args = op'.args[1]
             /\ \A k \in 1..nset : Readdresses(SubSeq(calls', 1, nset), k, post)
             /\ same => (nset = 0 /\ post = pre)
             /\ ~same => nset >= 1
             /\ UNCHANGED <<daq, daq_module, nconn, connection>>]_vars

\* C7 witness: a get with device and index keywords that moved the module
\* to another device and a non-zero index before the vendor get.
C7_Witness ==
    /\ op.name = "awg.get"
    /\ Len(calls) = 4
    /\ calls[4].fn = "awgModule.get"
    /\ Val(awg[op.conn]).index # 0
    /\ Val(awg[op.conn]).device = Val(KwargsOf(op).device)

====
